---- MODULE Spec2Model ----
(***************************************************************************)
(* A/B push-notification campaign dashboard (src/app.py).                  *)
(*                                                                         *)
(* The script is re-executed top to bottom by the Streamlit runtime.  The  *)
(* model follows one execution statement group by statement group and     *)
(* keeps the script's variables under their own names.                     *)
(*                                                                         *)
(* Python floats are IEEE-754 binary64.  A non-negative double is kept as  *)
(* [m, e]: m is its 53-bit significand (most significant bit first) and    *)
(* the value is m * 2^e; zero has the empty significand.  Division of two  *)
(* ints, the product of an int and a double and int() are computed bit by  *)
(* bit with round-to-nearest-even, as the interpreter computes them.       *)
(***************************************************************************)
EXTENDS Integers, Sequences, FiniteSets, TLC

VARIABLES
    pc,       \* the statement group the executing script (or called function) is at
    widgets,  \* the sidebar's widget state, kept by the runtime across executions
    g,        \* the names bound so far in this execution, with their values
    calls     \* the arguments generate_campaign_data was called with, in order

vars == <<pc, widgets, g, calls>>

\* Binding names in the namespace: the new bindings shadow the old ones.
Bind(new, ns) == new @@ ns

-----------------------------------------------------------------------------
(* binary64 arithmetic *)

SigBits == 53

Zero == [m |-> <<>>, e |-> 0]

\* Bit strings are sequences of 0 and 1, most significant bit first.  The
\* arithmetic below works on them ChunkBits bits at a time, so that every
\* intermediate product stays below 2^31.
ChunkBits == 10
Chunk == 2 ^ ChunkBits

Min(a, b) == IF a <= b THEN a ELSE b

\* The number of bits of the natural n (n < 2^30); 0 has none.
BitLen(n) == CHOOSE k \in 0..30 : (k = 0 \/ n >= 2 ^ (k - 1)) /\ n < 2 ^ k

\* The w low bits of the natural n.
NatBitsW(n, w) == [i \in 1..w |-> (n \div 2 ^ (w - i)) % 2]

NatBits(n) == NatBitsW(n, BitLen(n))

\* The natural a bit string of at most 30 bits stands for.
RECURSIVE BitsNat(_)
BitsNat(b) ==
    IF Len(b) = 0 THEN 0
    ELSE IF Len(b) = 1 THEN b[1]
    ELSE LET h == Len(b) \div 2
         IN  BitsNat(SubSeq(b, 1, h)) * 2 ^ (Len(b) - h) + BitsNat(SubSeq(b, h + 1, Len(b)))

Zeros(k) == [i \in 1..k |-> 0]

\* b without its leading zeros.
Strip(b) ==
    IF \A i \in 1..Len(b) : b[i] = 0 THEN <<>>
    ELSE LET f == CHOOSE i \in 1..Len(b) : b[i] = 1 /\ \A j \in 1..(i - 1) : b[j] = 0
         IN  SubSeq(b, f, Len(b))

\* b + 1 on a bit string that is not all ones.
IncBits(b) ==
    LET z == CHOOSE i \in 1..Len(b) : b[i] = 0 /\ \A j \in (i + 1)..Len(b) : b[j] = 1
    IN  [i \in 1..Len(b) |-> IF i < z THEN b[i] ELSE IF i = z THEN 1 ELSE 0]

\* The exact product of the top len bits of b and the natural n (n < 2^20),
\* plus carry, low chunk first.
RECURSIVE MulChunks(_, _, _, _)
MulChunks(b, n, len, carry) ==
    IF len = 0 THEN NatBits(carry)
    ELSE LET w == Min(ChunkBits, len)
             t == BitsNat(SubSeq(b, len - w + 1, len)) * n + carry
         IN  MulChunks(b, n, len - w, t \div 2 ^ w) \o NatBitsW(t % 2 ^ w, w)

MulBits(b, n) == Strip(MulChunks(b, n, Len(b), 0))

\* Round-to-nearest-even of the real b * 2^e (+ a non-zero tail below the last
\* bit when sticky) to a double; b starts with a 1.
RoundBits(b, sticky, e) ==
    LET L == Len(b) IN
    IF L <= SigBits
    THEN [m |-> b \o Zeros(SigBits - L), e |-> e - (SigBits - L)]
    ELSE LET kept  == SubSeq(b, 1, SigBits)
             guard == b[SigBits + 1]
             tail  == sticky \/ \E i \in (SigBits + 2)..L : b[i] = 1
             up    == guard = 1 /\ (tail \/ kept[SigBits] = 1)
             ex    == e + (L - SigBits)
         IN  IF ~up THEN [m |-> kept, e |-> ex]
             ELSE IF \A i \in 1..SigBits : kept[i] = 1
                  THEN [m |-> <<1>> \o Zeros(SigBits - 1), e |-> ex + 1]
                  ELSE [m |-> IncBits(kept), e |-> ex]

\* Long division of r/den (r < den < 2^21): the next k chunks of the quotient
\* after the binary point, and the remainder left after them.
RECURSIVE FracChunks(_, _, _)
FracChunks(r, den, k) ==
    IF k = 0 THEN <<>>
    ELSE NatBitsW((r * Chunk) \div den, ChunkBits)
            \o FracChunks((r * Chunk) % den, den, k - 1)

RECURSIVE FracRem(_, _, _)
FracRem(r, den, k) ==
    IF k = 0 THEN r ELSE FracRem((r * Chunk) % den, den, k - 1)

\* Chunks after the binary point that hold the 54 bits rounding needs, whatever
\* the quotient's leading zeros (fewer than 21, as den < 2^21).
FracChunkCount == (21 + SigBits + 1) \div ChunkBits + 1

\* Python's num / den for ints num >= 0, den > 0: the double nearest the quotient.
\* A float literal such as 0.98 is the double nearest 98/100.
TrueDiv(num, den) ==
    IF num = 0 THEN Zero
    ELSE RoundBits(Strip(NatBits(num \div den) \o FracChunks(num % den, den, FracChunkCount)),
                   FracRem(num % den, den, FracChunkCount) # 0,
                   -(FracChunkCount * ChunkBits))

\* Python's n * x and x * n for an int n >= 0 and a double x.
MulInt(x, n) ==
    IF n = 0 \/ x.m = <<>> THEN Zero
    ELSE RoundBits(MulBits(x.m, n), FALSE, x.e)

\* Python's int(x): truncation toward zero.
Trunc(x) ==
    IF x.m = <<>> \/ -(x.e) >= SigBits THEN 0
    ELSE BitsNat(SubSeq(x.m, 1, SigBits + x.e))

\* Python's x > y on non-negative doubles.
Greater(x, y) ==
    IF x.m = <<>> THEN FALSE
    ELSE IF y.m = <<>> THEN TRUE
    ELSE IF x.e # y.e THEN x.e > y.e
    ELSE \E i \in 1..SigBits :
            /\ x.m[i] = 1 /\ y.m[i] = 0
            /\ \A j \in 1..(i - 1) : x.m[j] = y.m[j]

-----------------------------------------------------------------------------
(* the two helper functions, src/app.py lines 16-43 *)

\* np.random.uniform(lo, hi) returns a double of [lo, hi]; the upper end is
\* included because low + (high - low) * u rounds to it for u close to 1.  lo
\* and hi are given in hundredths.  A function called on its own takes its draws
\* from DrawSteps + 1 evenly spaced points of the interval, both ends included;
\* a whole execution of the script takes each draw at one of the two ends.
DrawSteps == 2

Uniform(lo, hi) ==
    { TrueDiv(lo * DrawSteps + k * (hi - lo), 100 * DrawSteps) : k \in 0..DrawSteps }

Ends(lo, hi) == { TrueDiv(lo, 100), TrueDiv(hi, 100) }

DeliveredRatios == Uniform(90, 98)
DisplayedRatios == Uniform(85, 95)
ClickedRatios == Uniform(5, 15)

DeliveredEnds == Ends(90, 98)
DisplayedEnds == Ends(85, 95)
ClickedEnds == Ends(5, 15)

\* Wrong-variable slips in generate_campaign_data: the displayed count taken
\* from users_sent, the clicks taken from delivered.
generate_campaign_data_displayed_of_sent(users_sent, u1, u2, u3) ==
    LET delivered == Trunc(MulInt(u1, users_sent))
        displayed == Trunc(MulInt(u2, users_sent))
        clicks    == Trunc(MulInt(u3, displayed))
    IN  [sent |-> users_sent, delivered |-> delivered,
         displayed |-> displayed, clicked |-> clicks]

generate_campaign_data_clicks_of_delivered(users_sent, u1, u2, u3) ==
    LET delivered == Trunc(MulInt(u1, users_sent))
        displayed == Trunc(MulInt(u2, delivered))
        clicks    == Trunc(MulInt(u3, delivered))
    IN  [sent |-> users_sent, delivered |-> delivered,
         displayed |-> displayed, clicked |-> clicks]

\* The dict returned by generate_campaign_data; sent, delivered, displayed and
\* clicked stand for its keys "Notification Sent", "Notification Delivered",
\* "Notification Displayed" and "Notification Clicked".  u1, u2, u3 are the
\* three draws.
generate_campaign_data(users_sent, u1, u2, u3) ==
    LET delivered == Trunc(MulInt(u1, users_sent))
        displayed == Trunc(MulInt(u2, delivered))
        clicks    == Trunc(MulInt(u3, displayed))
    IN  [sent |-> users_sent, delivered |-> delivered,
         displayed |-> displayed, clicked |-> clicks]

\* The outcome of a call that raised instead of returning.
ZeroDivisionError == [raised |-> "ZeroDivisionError"]

\* (a / b) * 100 on ints; a / b raises when b is 0.
Percent(a, b) ==
    IF b = 0 THEN ZeroDivisionError ELSE MulInt(TrueDiv(a, b), 100)

\* The click-through rate guarded by the sent count instead of the delivered one.
calculate_metrics_ctr_guard_sent(data) ==
    LET delivery_rate == IF data.sent > 0
                         THEN Percent(data.delivered, data.sent) ELSE Zero
        display_rate  == IF data.delivered > 0
                         THEN Percent(data.displayed, data.delivered) ELSE Zero
        ctr           == IF data.sent > 0
                         THEN Percent(data.clicked, data.delivered) ELSE Zero
    IN  IF ZeroDivisionError \in {delivery_rate, display_rate, ctr}
        THEN ZeroDivisionError
        ELSE [delivery_rate |-> delivery_rate, display_rate |-> display_rate,
              ctr |-> ctr]

\* The dict returned by calculate_metrics; delivery_rate, display_rate and ctr
\* stand for "Delivery Rate (%)", "Display Rate (%)", "Click-Through Rate (%)".
\* The int 0 of the else branches compares equal to the double 0.0.
calculate_metrics(data) ==
    LET delivery_rate == IF data.sent > 0
                         THEN Percent(data.delivered, data.sent) ELSE Zero
        display_rate  == IF data.delivered > 0
                         THEN Percent(data.displayed, data.delivered) ELSE Zero
        ctr           == IF data.delivered > 0
                         THEN Percent(data.clicked, data.delivered) ELSE Zero
    IN  IF ZeroDivisionError \in {delivery_rate, display_rate, ctr}
        THEN ZeroDivisionError
        ELSE [delivery_rate |-> delivery_rate, display_rate |-> display_rate,
              ctr |-> ctr]

-----------------------------------------------------------------------------
(* the script, src/app.py lines 45-192 *)

\* Sidebar widgets (lines 51-64).
MinTotalUsers == 10000
MaxTotalUsers == 1000000
DefaultTotalUsers == 100000
MinPercentage == 10
MaxPercentage == 50
DefaultPercentage == 10
PercentageStep == 2

\* Model bounds: the values a user sets the widgets to.
UserGrain == 50
MaxUserSteps == 1
MaxPctSteps == 1

TotalUsersChoices ==
    { n \in { MinTotalUsers + k * UserGrain : k \in 0..MaxUserSteps } :
        n <= MaxTotalUsers }
PercentageChoices ==
    { p \in { MinPercentage + k * PercentageStep : k \in 0..MaxPctSteps } :
        p <= MaxPercentage }

Unbound == <<>>

Init ==
    /\ pc = "sidebar"
    /\ widgets = [total_users |-> DefaultTotalUsers,
                  ab_test_percentage |-> DefaultPercentage,
                  button |-> FALSE]
    /\ g = Unbound
    /\ calls = <<>>

\* An interaction after which the next execution still sees the last one's names.
InteractKeepsNames ==
    /\ \E t \in TotalUsersChoices \cup {widgets.total_users},
          p \in PercentageChoices \cup {widgets.ab_test_percentage},
          b \in BOOLEAN :
            widgets' = [total_users |-> t, ab_test_percentage |-> p, button |-> b]
    /\ widgets' # widgets
    /\ pc' = "sidebar"
    /\ UNCHANGED <<g, calls>>

\* A widget is changed or the rerun button is clicked: the runtime drops the
\* execution in progress, if any, and executes the script again from the top.
Interact ==
    /\ \E t \in TotalUsersChoices \cup {widgets.total_users},
          p \in PercentageChoices \cup {widgets.ab_test_percentage},
          b \in BOOLEAN :
            widgets' = [total_users |-> t, ab_test_percentage |-> p, button |-> b]
    /\ widgets' # widgets
    /\ pc' = "sidebar"
    /\ g' = Unbound
    /\ calls' = <<>>

\* Lines 51-68: the widgets are read; a clicked button calls st.rerun(), which
\* ends this execution and starts the next with the button released.
Sidebar ==
    /\ pc = "sidebar"
    /\ IF widgets.button
       THEN /\ widgets' = [widgets EXCEPT !.button = FALSE]
            /\ pc' = "sidebar"
            /\ g' = Unbound
       ELSE /\ g' = Bind([total_users |-> widgets.total_users,
                          ab_test_percentage |-> widgets.ab_test_percentage], g)
            /\ pc' = "split"
            /\ UNCHANGED widgets
    /\ calls' = <<>>

\* The odd user handed to Campaign B.
SplitUsers_b_gets_rest(total_users, ab_test_percentage) ==
    LET ab_test_users == Trunc(MulInt(TrueDiv(ab_test_percentage, 100), total_users))
    IN  [ab_test_users    |-> ab_test_users,
         campaign_a_users |-> ab_test_users \div 2,
         campaign_b_users |-> ab_test_users - ab_test_users \div 2,
         remaining_users  |-> total_users - ab_test_users]

\* The odd user handed to the rollout.
SplitUsers_rest_to_rollout(total_users, ab_test_percentage) ==
    LET ab_test_users == Trunc(MulInt(TrueDiv(ab_test_percentage, 100), total_users))
    IN  [ab_test_users    |-> ab_test_users,
         campaign_a_users |-> ab_test_users \div 2,
         campaign_b_users |-> ab_test_users \div 2,
         remaining_users  |-> total_users - 2 * (ab_test_users \div 2)]

\* Lines 81-84.
SplitUsers(total_users, ab_test_percentage) ==
    LET ab_test_users == Trunc(MulInt(TrueDiv(ab_test_percentage, 100), total_users))
    IN  [ab_test_users    |-> ab_test_users,
         campaign_a_users |-> ab_test_users \div 2,
         campaign_b_users |-> ab_test_users \div 2,
         remaining_users  |-> total_users - ab_test_users]

Split ==
    /\ pc = "split"
    /\ g' = Bind(SplitUsers(g.total_users, g.ab_test_percentage), g)
    /\ pc' = "gen_a"
    /\ UNCHANGED <<widgets, calls>>

\* Line 87.
GenerateA ==
    /\ pc = "gen_a"
    /\ \E u1 \in DeliveredEnds, u2 \in DisplayedEnds, u3 \in ClickedEnds :
          g' = Bind([data_a |-> generate_campaign_data(g.campaign_a_users, u1, u2, u3)], g)
    /\ calls' = Append(calls, g.campaign_a_users)
    /\ pc' = "gen_b"
    /\ UNCHANGED widgets

\* Line 88.
GenerateB ==
    /\ pc = "gen_b"
    /\ \E u1 \in DeliveredEnds, u2 \in DisplayedEnds, u3 \in ClickedEnds :
          g' = Bind([data_b |-> generate_campaign_data(g.campaign_b_users, u1, u2, u3)], g)
    /\ calls' = Append(calls, g.campaign_b_users)
    /\ pc' = "metrics"
    /\ UNCHANGED widgets

\* Lines 91-92.  A call that raises ends the execution.
Metrics ==
    /\ pc = "metrics"
    /\ LET metrics_a == calculate_metrics(g.data_a)
           metrics_b == calculate_metrics(g.data_b)
       IN  IF ZeroDivisionError \in {metrics_a, metrics_b}
           THEN /\ pc' = "raised"
                /\ g' = g
           ELSE /\ pc' = "winner"
                /\ g' = Bind([metrics_a |-> metrics_a, metrics_b |-> metrics_b], g)
    /\ UNCHANGED <<widgets, calls>>

\* Campaign A wins a tie.
DetermineWinner_a_on_tie(data_a, data_b, metrics_a, metrics_b) ==
    IF ~Greater(metrics_b.ctr, metrics_a.ctr)
    THEN [winner_name |-> "Campaign A", winner_data |-> data_a,
          winner_metrics |-> metrics_a, loser_name |-> "Campaign B",
          loser_ctr |-> metrics_b.ctr]
    ELSE [winner_name |-> "Campaign B", winner_data |-> data_b,
          winner_metrics |-> metrics_b, loser_name |-> "Campaign A",
          loser_ctr |-> metrics_a.ctr]

\* The A branch takes B's funnel.
DetermineWinner_swapped_data(data_a, data_b, metrics_a, metrics_b) ==
    IF Greater(metrics_a.ctr, metrics_b.ctr)
    THEN [winner_name |-> "Campaign A", winner_data |-> data_b,
          winner_metrics |-> metrics_a, loser_name |-> "Campaign B",
          loser_ctr |-> metrics_b.ctr]
    ELSE [winner_name |-> "Campaign B", winner_data |-> data_b,
          winner_metrics |-> metrics_b, loser_name |-> "Campaign A",
          loser_ctr |-> metrics_a.ctr]

\* Lines 116-129.
DetermineWinner(data_a, data_b, metrics_a, metrics_b) ==
    IF Greater(metrics_a.ctr, metrics_b.ctr)
    THEN [winner_name |-> "Campaign A", winner_data |-> data_a,
          winner_metrics |-> metrics_a, loser_name |-> "Campaign B",
          loser_ctr |-> metrics_b.ctr]
    ELSE [winner_name |-> "Campaign B", winner_data |-> data_b,
          winner_metrics |-> metrics_b, loser_name |-> "Campaign A",
          loser_ctr |-> metrics_a.ctr]

Winner ==
    /\ pc = "winner"
    /\ g' = Bind(DetermineWinner(g.data_a, g.data_b, g.metrics_a, g.metrics_b), g)
    /\ pc' = "rollout"
    /\ UNCHANGED <<widgets, calls>>

\* Lines 162-163.
Rollout ==
    /\ pc = "rollout"
    /\ \E u1 \in DeliveredEnds, u2 \in DisplayedEnds, u3 \in ClickedEnds :
          LET rollout_data == generate_campaign_data(g.remaining_users, u1, u2, u3)
              rollout_metrics == calculate_metrics(rollout_data)
          IN  IF rollout_metrics = ZeroDivisionError
              THEN /\ pc' = "raised"
                   /\ g' = Bind([rollout_data |-> rollout_data], g)
              ELSE /\ pc' = "summary"
                   /\ g' = Bind([rollout_data |-> rollout_data,
                                 rollout_metrics |-> rollout_metrics], g)
    /\ calls' = Append(calls, g.remaining_users)
    /\ UNCHANGED widgets

\* The blended rate taken over the sent count.
FinalSummary_ctr_of_sent(winner_data, rollout_data) ==
    LET total_sent      == winner_data.sent + rollout_data.sent
        total_delivered == winner_data.delivered + rollout_data.delivered
        total_displayed == winner_data.displayed + rollout_data.displayed
        total_clicks    == winner_data.clicked + rollout_data.clicked
        final_ctr       == IF total_sent > 0
                           THEN MulInt(TrueDiv(total_clicks, total_sent), 100) ELSE Zero
    IN  [total_sent |-> total_sent, total_delivered |-> total_delivered,
         total_displayed |-> total_displayed, total_clicks |-> total_clicks,
         final_ctr |-> final_ctr]

\* Lines 177-182.
FinalSummary(winner_data, rollout_data) ==
    LET total_sent      == winner_data.sent + rollout_data.sent
        total_delivered == winner_data.delivered + rollout_data.delivered
        total_displayed == winner_data.displayed + rollout_data.displayed
        total_clicks    == winner_data.clicked + rollout_data.clicked
        final_ctr       == IF total_delivered > 0
                           THEN Percent(total_clicks, total_delivered) ELSE Zero
    IN  [total_sent |-> total_sent, total_delivered |-> total_delivered,
         total_displayed |-> total_displayed, total_clicks |-> total_clicks,
         final_ctr |-> final_ctr]

Summary ==
    /\ pc = "summary"
    /\ g' = Bind(FinalSummary(g.winner_data, g.rollout_data), g)
    /\ pc' = "done"
    /\ UNCHANGED <<widgets, calls>>

Next ==
    \/ Interact
    \/ Sidebar
    \/ Split
    \/ GenerateA
    \/ GenerateB
    \/ Metrics
    \/ Winner
    \/ Rollout
    \/ Summary

Spec == Init /\ [][Next]_vars

-----------------------------------------------------------------------------
(* the functions and the split arithmetic on their own *)

\* Model bounds of the stand-alone specifications.
MaxSent == 40
MaxCount == 3
MaxSplitUsers == 100
MaxSplitPercentage == 100

NoWidgets == [total_users |-> DefaultTotalUsers,
              ab_test_percentage |-> DefaultPercentage, button |-> FALSE]

\* generate_campaign_data(users_sent) called with any count >= 0.
InitGenerate ==
    /\ pc = "call"
    /\ \E n \in 0..MaxSent : g = [users_sent |-> n]
    /\ widgets = NoWidgets
    /\ calls = <<>>

CallGenerate ==
    /\ pc = "call"
    /\ \E u1 \in DeliveredRatios, u2 \in DisplayedRatios, u3 \in ClickedRatios :
          g' = Bind([ret |-> generate_campaign_data(g.users_sent, u1, u2, u3)], g)
    /\ calls' = Append(calls, g.users_sent)
    /\ pc' = "returned"
    /\ UNCHANGED widgets

SpecGenerate == InitGenerate /\ [][CallGenerate]_vars

\* calculate_metrics(data) called with any dict of counts >= 0.
InitMetrics ==
    /\ pc = "call"
    /\ \E s \in 0..MaxCount, d \in 0..MaxCount, v \in 0..MaxCount, c \in 0..MaxCount :
          g = [data |-> [sent |-> s, delivered |-> d, displayed |-> v, clicked |-> c]]
    /\ widgets = NoWidgets
    /\ calls = <<>>

CallMetrics ==
    /\ pc = "call"
    /\ g' = Bind([ret |-> calculate_metrics(g.data)], g)
    /\ pc' = "returned"
    /\ UNCHANGED <<widgets, calls>>

SpecMetrics == InitMetrics /\ [][CallMetrics]_vars

\* Lines 81-84 on any user base >= 0 and any percentage of 0..100.
InitSplit ==
    /\ pc = "split"
    /\ \E t \in 0..MaxSplitUsers, p \in 0..MaxSplitPercentage :
          g = [total_users |-> t, ab_test_percentage |-> p]
    /\ widgets = NoWidgets
    /\ calls = <<>>

SpecSplit == InitSplit /\ [][Split]_vars

-----------------------------------------------------------------------------
(* properties *)

Bound(name) == name \in DOMAIN g

Chain(f) ==
    f.sent >= f.delivered /\ f.delivered >= f.displayed
        /\ f.displayed >= f.clicked /\ f.clicked >= 0

\* C1: for every users_sent >= 0 and every draw of the three ratios, the funnel
\* generate_campaign_data returns has sent equal to users_sent and
\* sent >= delivered >= displayed >= clicked >= 0.
C1_FunnelChain ==
    pc = "returned" => g.ret.sent = g.users_sent /\ Chain(g.ret)

C1_Witness ==
    /\ pc = "returned"
    /\ g.ret.sent > g.ret.delivered /\ g.ret.delivered > g.ret.displayed
    /\ g.ret.displayed > g.ret.clicked /\ g.ret.clicked > 0

\* C2: the winner is Campaign A exactly when A's click-through rate is strictly
\* greater than B's; otherwise, equal rates included, it is Campaign B.
C2_WinnerRule ==
    Bound("winner_name") =>
        /\ g.winner_name \in {"Campaign A", "Campaign B"}
        /\ g.winner_name = "Campaign A" <=> Greater(g.metrics_a.ctr, g.metrics_b.ctr)
        /\ g.metrics_a.ctr = g.metrics_b.ctr => g.winner_name = "Campaign B"

C2_Witness ==
    /\ Bound("winner_name")
    /\ g.metrics_a.ctr = g.metrics_b.ctr
    /\ g.winner_name = "Campaign B"

\* C3: the blended total is the field-wise sum of the rollout funnel and the
\* test-phase funnel of the campaign whose click-through rate won the
\* comparison, never the loser's and never a new one.
C3_BlendedSum ==
    pc = "done" =>
        LET won == IF Greater(g.metrics_a.ctr, g.metrics_b.ctr)
                   THEN g.data_a ELSE g.data_b
        IN  /\ g.winner_data = won
            /\ g.total_sent = won.sent + g.rollout_data.sent
            /\ g.total_delivered = won.delivered + g.rollout_data.delivered
            /\ g.total_displayed = won.displayed + g.rollout_data.displayed
            /\ g.total_clicks = won.clicked + g.rollout_data.clicked

C3_Witness ==
    /\ pc = "done"
    /\ g.winner_name = "Campaign A"
    /\ g.data_a.delivered # g.data_b.delivered
    /\ g.data_a.clicked # g.data_b.clicked

\* C4: calculate_metrics never raises on counts >= 0; the delivery rate is 0
\* when sent is 0, the display rate and the click-through rate are 0 when
\* delivered is 0.
C4_ZeroGuards ==
    pc = "returned" =>
        /\ g.ret # ZeroDivisionError
        /\ g.data.sent = 0 => g.ret.delivery_rate = Zero
        /\ g.data.delivered = 0 => g.ret.display_rate = Zero /\ g.ret.ctr = Zero

C4_Witness ==
    /\ pc = "returned"
    /\ g.data.sent > 0 /\ g.data.delivered = 0 /\ g.data.clicked > 0
    /\ g.ret # ZeroDivisionError

C6_EvenSplit ==
    Bound("ab_test_users") =>
        /\ g.campaign_a_users = g.ab_test_users \div 2
        /\ g.campaign_b_users = g.ab_test_users \div 2
        /\ g.campaign_a_users + g.campaign_b_users =
              IF g.ab_test_users % 2 = 0 THEN g.ab_test_users ELSE g.ab_test_users - 1
        /\ g.remaining_users = g.total_users - g.ab_test_users

C6_Witness ==
    /\ Bound("ab_test_users")
    /\ g.ab_test_users % 2 = 1
    /\ g.campaign_a_users + g.campaign_b_users = g.ab_test_users - 1
    /\ g.campaign_a_users > 0

\* C7: every funnel generate_campaign_data returns keeps the ratio bounds:
\* floor(0.90 sent) <= delivered <= floor(0.98 sent),
\* floor(0.85 delivered) <= displayed <= floor(0.95 delivered),
\* floor(0.05 displayed) <= clicked <= floor(0.15 displayed);
\* an input of 0 gives the all-zero funnel.
C7_RatioBounds ==
    pc = "returned" =>
        LET f == g.ret
        IN  /\ (90 * f.sent) \div 100 <= f.delivered
            /\ f.delivered <= (98 * f.sent) \div 100
            /\ (85 * f.delivered) \div 100 <= f.displayed
            /\ f.displayed <= (95 * f.delivered) \div 100
            /\ (5 * f.displayed) \div 100 <= f.clicked
            /\ f.clicked <= (15 * f.displayed) \div 100
            /\ g.users_sent = 0 =>
                  f = [sent |-> 0, delivered |-> 0, displayed |-> 0, clicked |-> 0]

C7_Witness ==
    /\ pc = "returned"
    /\ g.ret.sent >= 20
    /\ g.ret.delivered = (98 * g.ret.sent) \div 100
    /\ g.ret.displayed = (85 * g.ret.delivered) \div 100
    /\ g.ret.clicked = (15 * g.ret.displayed) \div 100
    /\ g.ret.clicked > (5 * g.ret.displayed) \div 100

\* C8: the blended click-through rate of a finished execution is the rate
\* calculate_metrics gives for the blended funnel: (winner clicked + rollout
\* clicked) / (winner delivered + rollout delivered) * 100, and 0 when the
\* blended delivered count is 0.
C8_BlendedRate ==
    pc = "done" =>
        LET blended == [sent      |-> g.winner_data.sent + g.rollout_data.sent,
                        delivered |-> g.winner_data.delivered + g.rollout_data.delivered,
                        displayed |-> g.winner_data.displayed + g.rollout_data.displayed,
                        clicked   |-> g.winner_data.clicked + g.rollout_data.clicked]
        IN  /\ calculate_metrics(blended) # ZeroDivisionError
            /\ g.final_ctr = calculate_metrics(blended).ctr
            /\ blended.delivered = 0 => g.final_ctr = Zero

C8_Witness ==
    /\ pc = "done"
    /\ Greater(g.final_ctr, Zero)
    /\ g.final_ctr # g.winner_metrics.ctr
    /\ g.final_ctr # g.rollout_metrics.ctr

\* C9: an execution generates exactly three funnels, for campaign_a_users,
\* campaign_b_users and remaining_users in this order; the winner is bound after
\* both metrics and before the rollout funnel, and does not change afterwards
\* within the execution; a new execution starts with nothing bound.
C9_State ==
    /\ pc = "sidebar" => g = Unbound /\ calls = <<>>
    /\ Len(calls) <= 3
    /\ Bound("data_b") => Bound("data_a")
    /\ Bound("winner_name") => Bound("metrics_a") /\ Bound("metrics_b")
    /\ Bound("rollout_data") => Bound("winner_name")
    /\ Bound("winner_name") /\ ~Bound("rollout_data") => Len(calls) = 2
    /\ Bound("data_a") => calls[1] = g.campaign_a_users
    /\ Bound("data_b") => calls[2] = g.campaign_b_users
    /\ Bound("rollout_data") => calls[3] = g.remaining_users
    /\ pc = "done" =>
          calls = <<g.campaign_a_users, g.campaign_b_users, g.remaining_users>>

C9_Step ==
    Bound("winner_name") /\ pc' # "sidebar" =>
        /\ g'.winner_name = g.winner_name
        /\ g'.winner_data = g.winner_data

C9_RunOrder == []C9_State /\ [][C9_Step]_vars

C9_Witness ==
    /\ pc = "done"
    /\ Len(calls) = 3
    /\ calls[3] > calls[1]
    /\ widgets.total_users # DefaultTotalUsers

\* C10: the blended sent count is floor(ab_test_users / 2) + remaining_users,
\* that is total_users - ceil(ab_test_users / 2), so it is below total_users
\* whenever ab_test_users >= 1; the blended funnel is still a non-increasing
\* chain of counts >= 0.
C10_BlendedSent ==
    pc = "done" =>
        /\ g.total_sent = g.ab_test_users \div 2 + g.remaining_users
        /\ g.total_sent = g.total_users - (g.ab_test_users + 1) \div 2
        /\ g.ab_test_users >= 1 => g.total_sent < g.total_users
        /\ Chain([sent |-> g.total_sent, delivered |-> g.total_delivered,
                  displayed |-> g.total_displayed, clicked |-> g.total_clicks])

C10_Witness ==
    /\ pc = "done"
    /\ g.ab_test_users % 2 = 1
    /\ g.total_sent < g.total_users
    /\ g.total_clicks > 0

====
